---- MODULE Spec2Model ----
(***************************************************************************)
(* Model of moat/dev/heat/solvis.py: the heat pump controller Data, its    *)
(* operational state machine run_pump, the shutdown procedure off() and    *)
(* the feeds that update the live values.                                  *)
(*                                                                         *)
(* All tasks run on one event loop, so a task runs without interruption    *)
(* from one await to the next.  The position of the orchestrator task      *)
(* (Data.run: run_pump, then off() in its finalizer) is pc; the values of  *)
(* pc in Suspended are the awaits at which other tasks may run.            *)
(*                                                                         *)
(* Numbers are integers: temperatures in tenths of a degree, fractions     *)
(* (load, PWM) in hundredths, power in tenths, times in seconds.           *)
(* The feedback loops (moat.lib.pid.CPID) are an external library; a call  *)
(* of a loop yields any value of its configured clamp range [min, max],    *)
(* of which the model takes the two ends.                                  *)
(*                                                                         *)
(* The writes of the feedback values (cfg.feedback) and of the COP are     *)
(* awaits without an effect on the state modelled here; the two writes of  *)
(* set_load are one await; the heating is switched by the GPIO pin         *)
(* (setting.heat.power), which is no await.  The variables ev, prev,       *)
(* entered, low_since, cmd_at, met_since and latest are history variables: *)
(* the program does not read them.                                         *)
(*                                                                         *)
(* The files are written by worker threads (anyio.Path): the write of the  *)
(* saver is two steps, the open that truncates the file and the write of   *)
(* the text; the write of off() is one step.  A subscription of run_init   *)
(* sends its uptodate marker once.                                         *)
(***************************************************************************)
EXTENDS Integers, Sequences, FiniteSets, TLC

Deg == 5 * 2
Pct == 50 * 2
Pw == 5 * 2

None == -1

Max(a, b) == IF a >= b THEN a ELSE b
Min(a, b) == IF a <= b THEN a ELSE b

-----------------------------------------------------------------------------
(* class Run(IntEnum) *)
Run_off == 0
Run_wait_time == 1
Run_wait_flow == 2
Run_flow == 3
Run_wait_power == 4
Run_temp == 5
Run_run == 6
Run_ice == 7
Run_down == 8
RunStates == Run_off .. Run_down

(* CFG *)
adj_water == 3 * Deg
adj_heat == (15 * Deg) \div 10
adj_max == 61 * Deg
adj_low_water == 1 * Deg
adj_low_heat == (5 * Deg) \div 10
heat_mode_delay == 30
lim_power_min == (4 * Pct) \div 100
lim_power_time == 300
mode_on == 3
mode_off == 0
stop_delta == 3 * Deg
start_delay == 330
init_rate == 6
init_pwm == (25 * Pct) \div 100
power_pwm == (40 * Pct) \div 100
start_power == (10 * Pct) \div 100
start_delta == 2 * Deg
min_power == (9 * Pw) \div 10
no_power_grace == 20
pid_flow_min == (25 * Pct) \div 100
pid_flow_max == (95 * Pct) \div 100
pid_pump_min == (20 * Pct) \div 100
pid_pump_max == 1 * Pct
pid_load_min == (4 * Pct) \div 100
pid_load_max == 1 * Pct

(* Outputs of the feedback loops: the ends of each loop's clamp range. *)
pid_flow == {pid_flow_min, pid_flow_max}
pid_pump == {pid_pump_min, pid_pump_max}
pid_load == {pid_load_min, pid_load_max}
pid_buffer == {pid_load_min, pid_load_max}
pid_limit == {pid_load_min, pid_load_max}

-----------------------------------------------------------------------------
(* Bounds of the environment: the values the feeds deliver. *)
WaterSet == 50      \* c_water, degrees
HeatSet == 42       \* c_heat, degrees
BufCold == 45       \* a buffer temperature below every threshold, degrees
BufWarm == 55       \* a buffer temperature above every threshold, degrees
BufOn == 52         \* a temperature of the hot-water part at the on threshold, degrees
InTemp == 40        \* t_in, degrees
OutRise == 5        \* t_out - t_in of a working exchanger, degrees
OutHot == 65        \* t_out above adj.max, degrees
FlowRate == 6       \* r_flow of a running pump, l/min
PowerOn == 10       \* m_power of a working heat pump, tenths
ErrCode == 7        \* a fault code
TickLong == 335     \* seconds
MaxTime == 400      \* seconds

BufTemps == {BufCold * Deg, BufWarm * Deg}

Dom(n) ==
    CASE n \in {"m_ice", "cm_main", "cm_heat"} -> BOOLEAN
      [] n = "c_water" -> {WaterSet * Deg}
      [] n = "c_heat" -> {HeatSet * Deg}
      [] n = "t_in" -> {InTemp * Deg}
      [] n = "t_out" -> {InTemp * Deg, (InTemp + OutRise) * Deg, OutHot * Deg}
      [] n = "r_flow" -> {0, FlowRate}
      [] n = "tb_water" -> BufTemps \cup {BufOn * Deg}
      [] n \in {"tb_heat", "tb_mid", "tb_low"} -> BufTemps
      [] n = "m_power" -> {0, PowerOn}

ErrPaths == {":1", ":2"}
ErrCodes == {0, 30055, ErrCode}

-----------------------------------------------------------------------------
VARIABLES
    self,        \* the attributes of Data that has() sets, and force_on
    m_errors,    \* Data.m_errors, a dict: a set of <<path, code>>
    latest,      \* history: the code of the last message of err_mon for each path
    time,        \* Data.time
    state,       \* Data.state (RuntimeState); None is an absent key
    out,         \* the values last written to the outputs
    file,        \* the state file cfg.state: <<>> when absent
    tmpf,        \* the temporary file cfg.state+".n"
    spc,         \* the position of the task Data.saver
    sfd,         \* the file that the saver's write_text has open: "none", "tmp", "file"
    ssnap,       \* the snapshot that the saver's save() has printed
    run, orun, m_ice, cm_main, cm_heat, heat_off, t_no_power,
    t,           \* the temperatures an evaluation calculates (t_nom, t_cur, ...)
    l,           \* the loop outputs of the cascade (l_pump, l_load, ...)
    lim,
    pc,          \* position of the task Data.run
    notified,    \* the event the task waits on in wait() has been set
    cancelled,   \* the task group of the command has been cancelled
    exc,         \* the exception that ended run_pump
    ev,          \* what the current evaluation of the exit conditions has read
    prev,        \* history: the Run state entered before orun
    entered,     \* history: the Run state whose entry action ran last
    low_since,   \* history: the first of the low-power readings of this stay in
                 \* run that no reading at or above the minimum has followed
    cmd_at,      \* history: the time of the last command of a non-zero load
    met_since,   \* history: the time of the first of the evaluations of the heating
                 \* path that met its condition since the last one that did not
    want,        \* Data._want: the names the startup still waits for
    miss,        \* the names whose task _kv has its local miss set
    attrs,       \* the names that are attributes of Data (hasattr), set by has()
    marked,      \* the names whose subscription has delivered its uptodate marker
    barrier,     \* run_init: "waiting" in all_done, "started", or "timeout"
    missing      \* the names the ValueError of run_init reports

vars == <<self, m_errors, latest, time, state, out, file, tmpf, spc, sfd, ssnap, run, orun, m_ice, cm_main,
          cm_heat, heat_off, t_no_power, t, l, lim, pc, notified, cancelled, exc, ev,
          prev, entered, low_since, cmd_at, met_since, want, miss, attrs, marked, barrier,
          missing>>

saving == <<spc, sfd, ssnap>>
startup == <<want, miss, attrs, marked, barrier, missing>>
env == <<self, m_errors, latest, time>>
disk == <<file, tmpf>>
locals == <<run, orun, m_ice, cm_main, cm_heat, heat_off, t_no_power, t, l, lim>>
hist == <<ev, prev, entered, low_since, cmd_at, met_since>>

(* The awaits of run_pump and of off(). *)
PumpAwaits == {"fix", "wait", "e2", "e3", "fb_ice", "fb_noice", "fb_off", "fb_on",
               "fb_heat", "sf", "hf", "c_load", "c_flow"}
OffAwaits == {"o_w1", "o_r1", "o_load", "o_hf", "o_wait", "o_flow0", "o_w2", "o_r2"}
Suspended == PumpAwaits \cup OffAwaits

B(x) == IF x THEN "True" ELSE "False"

-----------------------------------------------------------------------------
(* Data.set_load: what it writes, and what it records when the writes return *)
set_load_out(o, p) ==
    IF p < lim_power_min
    THEN [o EXCEPT !.power = 0, !.mode = mode_off]
    ELSE [o EXCEPT !.power = Min(p, Pct), !.mode = mode_on]

set_load_last(p) == IF p < lim_power_min THEN 0 ELSE p

(* A faulty check that does not let the de-icing interrupt a state *)
TransitionOK_strict(o, r) ==
    \/ o = r
    \/ o = None
    \/ r = Run_off
    \/ r = o + 1
    \/ (o # Run_off /\ r = Run_down)
    \/ (o = Run_down /\ r = Run_off)

(* A faulty check that lets every forward jump pass *)
TransitionOK_forward(o, r) ==
    \/ o = r
    \/ o = None
    \/ r = Run_off
    \/ r = Run_ice
    \/ r >= o + 1
    \/ (o # Run_off /\ r = Run_down)
    \/ (o = Run_down /\ r = Run_off)

(* the check for inappropriate state changes *)
TransitionOK(o, r) ==
    \/ o = r
    \/ o = None
    \/ r = Run_off
    \/ r = Run_ice
    \/ r = o + 1
    \/ (o # Run_off /\ r = Run_down)
    \/ (o = Run_down /\ r = Run_off)

(* A faulty loop top without the redirect *)
Redirect_none(o, r) == r

(* redirect for shutdown *)
Redirect(o, r) ==
    IF r = Run_off /\ o \notin {Run_off, Run_wait_time, Run_wait_flow, Run_wait_power, Run_down}
    THEN Run_down
    ELSE r

(* The locals that every evaluation assigns before it reads them hold no value
   from one evaluation to the next. *)
NoTemps == [nom |-> 0, low |-> 0, adj |-> 0, cur |-> 0]
NoLoops == [pump |-> 0, load |-> 0, buffer |-> 0, limit |-> 0]

(* Nothing read yet: from is the Run state the evaluation starts in, ice what line 467
   read, main what line 482 read, hot what line 708 read, hc the branch of the heating
   path (lines 640-671) it took, why the branch that ended the evaluation. *)
NoEval == [from |-> None, ice |-> FALSE, main |-> "unread", hot |-> FALSE,
           hc |-> "none", why |-> "none", ended |-> FALSE]

Ended(why) == [ev EXCEPT !.why = why, !.ended = TRUE]

-----------------------------------------------------------------------------
(* Data.__init__ and the first lines of run_pump *)
heat_no == 0 - 1       \* state.heat_ok is False
heat_yes == 0 - 2      \* state.heat_ok is True; any other value is a time

(* A snapshot a previous process left in the state file while in state r. *)
Restored(r) ==
    [run |-> r,
     last_pwm |-> IF r = Run_off THEN None
                  ELSE IF r = Run_wait_time THEN 0
                  ELSE IF r \in {Run_wait_flow, Run_flow, Run_wait_power} THEN init_pwm
                  ELSE power_pwm,
     last_load |-> IF r \in {Run_wait_power, Run_temp, Run_run} THEN start_power ELSE 0,
     load_last |-> IF r = Run_run THEN pid_load_max ELSE None,
     last_pump |-> None,
     t_load |-> None,
     t_run |-> None,
     heat_ok |-> heat_no]

(* attrdict(): no state file *)
NoState == [Restored(Run_off) EXCEPT !.run = None, !.last_pwm = None]

StateGet(key, default) == IF state[key] = None THEN default ELSE state[key]

(* The task at the top of the loop of run_pump.  R: the Run values the state file
   may hold (None: there is no state file), which give the local run; O: the values
   of the local orun, None when the loop is entered. *)
Loaded(O, R, p) ==
    /\ m_errors = {}
    /\ latest = [path \in ErrPaths |-> 0]
    /\ time = 0
    /\ \E r \in R :
          /\ state = IF r = None THEN NoState ELSE Restored(r)
          /\ file = IF r = None THEN <<>> ELSE <<Restored(r)>>
    /\ tmpf = <<>>
    /\ spc = "sleep" /\ sfd = "none" /\ ssnap = NoState
    /\ out = [flow |-> IF state.last_pwm = None THEN 0 ELSE state.last_pwm,
              power |-> state.last_load,
              mode |-> IF state.last_load = 0 THEN mode_off ELSE mode_on,
              heat |-> FALSE]
    /\ run = StateGet("run", 0)
    /\ orun \in O
    /\ m_ice = FALSE
    /\ cm_main = "None"
    /\ cm_heat = "None"
    /\ heat_off = "False"
    /\ t_no_power = None
    /\ t = NoTemps
    /\ l = NoLoops
    /\ lim = 0
    /\ pc = p
    /\ notified = FALSE
    /\ cancelled = FALSE
    /\ exc = "none"
    /\ ev = NoEval
    /\ prev = None
    /\ entered = orun
    /\ low_since = None
    /\ cmd_at = None
    /\ met_since = None

LoopTop(O, R) == Loaded(O, R, "top")

(* Data.__init__ and the locals of run_pump *)
InitProgram(R) == LoopTop({None}, R)

-----------------------------------------------------------------------------
(* run_pump, Part 1: what to do when a state changes *)

PumpTop ==
    /\ pc = "top"
    /\ IF ~TransitionOK(orun, run)
       THEN /\ pc' = "finally"
            /\ exc' = "ValueError"
            /\ UNCHANGED <<run, out>>
       ELSE /\ run' = Redirect(orun, run)
            /\ exc' = exc
            /\ IF orun = None /\ run' = Run_run /\ state.load_last # None
               THEN /\ out' = set_load_out(out, state.load_last)
                    /\ pc' = "fix"
               ELSE /\ out' = out
                    /\ pc' = "enter"
    /\ cmd_at' = IF pc' = "fix" /\ state.load_last >= lim_power_min THEN time ELSE cmd_at
    /\ UNCHANGED <<saving, startup, env, state, disk, orun, m_ice, cm_main, cm_heat, heat_off,
                   t_no_power, t, l, lim, notified, cancelled, ev, prev, entered, low_since,
                   met_since>>

PumpFix ==
    /\ pc = "fix" /\ ~cancelled
    /\ state' = [state EXCEPT !.last_load = set_load_last(state.load_last)]
    /\ pc' = "enter"
    /\ UNCHANGED <<saving, startup, env, out, disk, locals, notified, cancelled, exc, hist>>

(* Entering a state: up to the first await of the entry action *)
PumpEnter ==
    /\ pc = "enter"
    /\ IF orun = run
       THEN /\ pc' = "wait"
            /\ notified' = FALSE
            /\ UNCHANGED <<heat_off, state, out>>
       ELSE /\ notified' = notified
            /\ CASE run \in {Run_off, Run_wait_time} ->
                      /\ heat_off' = IF run = Run_off THEN "False" ELSE "None"
                      /\ state' = [state EXCEPT !.last_pwm = 0]
                      /\ out' = [out EXCEPT !.flow = 0]
                      /\ pc' = "e2"
                 [] run \in {Run_wait_flow, Run_ice, Run_down} ->
                      /\ heat_off' = "True"
                      /\ out' = [out EXCEPT !.mode = mode_off]
                      /\ pc' = "e2"
                      /\ state' = state
                 [] run = Run_flow ->
                      /\ heat_off' = "None"
                      /\ pc' = "post"
                      /\ UNCHANGED <<state, out>>
                 [] run = Run_wait_power ->
                      /\ heat_off' = "None"
                      /\ out' = set_load_out(out, start_power)
                      /\ pc' = "e3"
                      /\ state' = state
                 [] run = Run_temp ->
                      /\ heat_off' = "None"
                      /\ state' = [state EXCEPT !.last_pwm = power_pwm]
                      /\ out' = [out EXCEPT !.flow = power_pwm]
                      /\ pc' = "e3"
                 [] run = Run_run ->
                      /\ heat_off' = "False"
                      /\ state' = [state EXCEPT !.t_run = StateGet("t_run", time),
                                                !.load_last = None]
                      /\ pc' = "post"
                      /\ out' = out
    /\ entered' = IF orun = run THEN entered ELSE run
    /\ low_since' = IF orun # run /\ run = Run_run THEN None ELSE low_since
    /\ cmd_at' = IF orun # run /\ run = Run_wait_power /\ start_power >= lim_power_min
                 THEN time ELSE cmd_at
    /\ UNCHANGED <<saving, startup, env, disk, run, orun, m_ice, cm_main, cm_heat, t_no_power, t, l, lim,
                   cancelled, exc, ev, prev, met_since>>

(* the entry action after its first await *)
PumpEnter2 ==
    /\ pc = "e2" /\ ~cancelled
    /\ CASE run \in {Run_off, Run_wait_time} ->
              /\ out' = set_load_out(out, 0)
              /\ state' = state
         [] run = Run_wait_flow ->
              /\ state' = [state EXCEPT !.last_pwm = init_pwm]
              /\ out' = [out EXCEPT !.flow = init_pwm]
         [] run \in {Run_ice, Run_down} ->
              /\ out' = [out EXCEPT !.power = 0]
              /\ state' = state
    /\ pc' = "e3"
    /\ UNCHANGED <<saving, startup, env, disk, locals, notified, cancelled, exc, hist>>

(* the entry action after its last await *)
PumpEnter3 ==
    /\ pc = "e3" /\ ~cancelled
    /\ state' = CASE run = Run_off -> [state EXCEPT !.last_load = 0, !.last_pwm = None]
                  [] run = Run_wait_time -> [state EXCEPT !.last_load = 0]
                  [] run = Run_wait_power ->
                         [state EXCEPT !.last_load = set_load_last(start_power)]
                  [] OTHER -> state
    /\ pc' = "post"
    /\ UNCHANGED <<saving, startup, env, out, disk, locals, notified, cancelled, exc, hist>>

(* Data.wait returns *)
PumpWake ==
    /\ pc = "wait" /\ notified /\ ~cancelled
    /\ pc' = "post"
    /\ UNCHANGED <<saving, startup, env, state, out, disk, locals, notified, cancelled, exc, hist>>

-----------------------------------------------------------------------------
(* run_pump, Part 2: the exit conditions *)

(* A faulty loop that does not record the state it has entered *)
PumpPost_stale ==
    /\ pc = "post"
    /\ orun' = orun
    /\ prev' = IF orun # run THEN orun ELSE prev
    /\ state' = [state EXCEPT !.run = run]
    /\ ev' = [NoEval EXCEPT !.from = run, !.ice = self.m_ice]
    /\ IF self.m_ice
       THEN IF ~m_ice
            THEN m_ice' = TRUE /\ pc' = "fb_ice"
            ELSE m_ice' = m_ice /\ pc' = "main"
       ELSE IF m_ice
            THEN m_ice' = m_ice /\ pc' = "fb_noice"
            ELSE m_ice' = FALSE /\ pc' = "main"
    /\ t' = NoTemps /\ l' = NoLoops /\ lim' = 0
    /\ UNCHANGED <<saving, startup, env, out, disk, run, cm_main, cm_heat, heat_off, t_no_power,
                   notified, cancelled, exc, low_since, cmd_at, met_since, entered>>

(* When de-icing starts, shut down *)
PumpPost ==
    /\ pc = "post"
    /\ orun' = run
    /\ prev' = IF orun # run THEN orun ELSE prev
    /\ state' = [state EXCEPT !.run = run]
    /\ ev' = [NoEval EXCEPT !.from = run, !.ice = self.m_ice]
    /\ IF self.m_ice
       THEN IF ~m_ice
            THEN m_ice' = TRUE /\ pc' = "fb_ice"
            ELSE m_ice' = m_ice /\ pc' = "main"
       ELSE IF m_ice
            THEN m_ice' = m_ice /\ pc' = "fb_noice"
            ELSE m_ice' = FALSE /\ pc' = "main"
    /\ t' = NoTemps /\ l' = NoLoops /\ lim' = 0
    /\ UNCHANGED <<saving, startup, env, out, disk, run, cm_main, cm_heat, heat_off, t_no_power,
                   notified, cancelled, exc, low_since, cmd_at, met_since, entered>>

PumpFbIce ==
    /\ pc \in {"fb_ice", "fb_noice"} /\ ~cancelled
    /\ IF pc = "fb_ice"
       THEN /\ run' = Run_ice
            /\ pc' = "top"
            /\ ev' = Ended("ice")
            /\ m_ice' = m_ice
       ELSE /\ m_ice' = FALSE
            /\ pc' = "main"
            /\ UNCHANGED <<run, ev>>
    /\ UNCHANGED <<saving, startup, env, state, out, disk, orun, cm_main, cm_heat, heat_off, t_no_power,
                   t, l, lim, notified, cancelled, exc, prev, entered, low_since, cmd_at, met_since>>

(* Process the main switch *)
MainBad == ~self.cm_main \/ m_errors # {}

(* A faulty main switch that stays off once the machine was forced to off *)
PumpMain_latch ==
    /\ pc = "main"
    /\ ev' = [ev EXCEPT !.main = IF MainBad THEN "bad" ELSE "ok"]
    /\ IF MainBad
       THEN IF cm_main = "True"
            THEN cm_main' = "False" /\ pc' = "fb_off"
            ELSE cm_main' = cm_main /\ pc' = "heatsw"
       ELSE IF cm_main = "None"
            THEN cm_main' = "True" /\ pc' = "fb_on"
            ELSE cm_main' = cm_main /\ pc' = "heatsw"
    /\ UNCHANGED <<saving, startup, env, state, out, disk, run, orun, m_ice, cm_heat, heat_off, t_no_power,
                   t, l, lim, notified, cancelled, exc, prev, entered, low_since, cmd_at, met_since>>

PumpMain ==
    /\ pc = "main"
    /\ ev' = [ev EXCEPT !.main = IF MainBad THEN "bad" ELSE "ok"]
    /\ IF MainBad
       THEN IF cm_main = "True"
            THEN cm_main' = "False" /\ pc' = "fb_off"
            ELSE cm_main' = cm_main /\ pc' = "heatsw"
       ELSE IF cm_main # "True"
            THEN cm_main' = "True" /\ pc' = "fb_on"
            ELSE cm_main' = cm_main /\ pc' = "heatsw"
    /\ UNCHANGED <<saving, startup, env, state, out, disk, run, orun, m_ice, cm_heat, heat_off, t_no_power,
                   t, l, lim, notified, cancelled, exc, prev, entered, low_since, cmd_at, met_since>>

PumpFbMain ==
    /\ pc \in {"fb_off", "fb_on"} /\ ~cancelled
    /\ IF pc = "fb_off"
       THEN /\ run' = Run_off
            /\ pc' = "top"
            /\ ev' = Ended("main")
       ELSE /\ pc' = "heatsw"
            /\ UNCHANGED <<run, ev>>
    /\ UNCHANGED <<saving, startup, env, state, out, disk, orun, m_ice, cm_main, cm_heat, heat_off,
                   t_no_power, t, l, lim, notified, cancelled, exc, prev, entered, low_since, cmd_at, met_since>>

(* Process the heating control switch *)
PumpHeatSw ==
    /\ pc = "heatsw"
    /\ pc' = IF B(self.cm_heat) # cm_heat THEN "fb_heat" ELSE "calc"
    /\ UNCHANGED <<saving, startup, env, state, out, disk, locals, notified, cancelled, exc, hist>>

PumpFbHeat ==
    /\ pc = "fb_heat" /\ ~cancelled
    /\ cm_heat' = B(self.cm_heat)
    /\ pc' = "calc"
    /\ UNCHANGED <<saving, startup, env, state, out, disk, run, orun, m_ice, cm_main, heat_off, t_no_power,
                   t, l, lim, notified, cancelled, exc, hist>>

(* Calculate desired temperatures *)
Temps ==
    LET tw_nom == self.c_water
        tw_low == tw_nom + adj_low_water
        tw_adj == tw_nom + adj_water
        th_nom == self.c_heat
        th_low == th_nom + adj_low_heat
        th_adj == th_nom + adj_heat
        heat == cm_heat = "True"
    IN  [nom |-> IF heat THEN Max(th_nom, tw_nom) ELSE tw_nom,
         low |-> IF heat THEN Max(th_low, tw_low) ELSE tw_low,
         adj |-> IF heat THEN Max(th_adj, tw_adj) ELSE tw_adj,
         cur |-> IF heat THEN self.tb_heat ELSE self.tb_water]

(* A faulty start condition that starts above the threshold *)
StartCond_above(tt) == self.force_on \/ 2 * tt.cur > tt.low + tt.adj

(* off: self.force_on or t_cur < t_set_on, with t_set_on = (t_low+t_adj)/2 *)
StartCond(tt) == self.force_on \/ 2 * tt.cur < tt.low + tt.adj

(* run = r; continue *)
Continue(r, why) ==
    /\ run' = r
    /\ pc' = "top"
    /\ ev' = Ended(why)

(* Data.handle_flow up to the await in set_flow_pwm *)
HandleFlow(st) ==
    \E l_flow \in pid_flow, l_temp \in pid_pump :
        /\ state' = [st EXCEPT !.last_pwm = Max(l_flow, l_temp)]
        /\ out' = [out EXCEPT !.flow = Max(l_flow, l_temp)]

(* l_flow = self.pid_flow(...); await self.set_flow_pwm(l_flow) *)
FlowStep ==
    \E l_flow \in pid_flow :
        /\ state' = [state EXCEPT !.last_pwm = l_flow]
        /\ out' = [out EXCEPT !.flow = l_flow]

(* State handling, up to the first await *)
PumpCalc ==
    /\ pc = "calc"
    /\ t' = Temps
    /\ CASE run = Run_off ->
              IF cm_main = "True" /\ m_errors = {} /\ StartCond(t')
              THEN /\ Continue(Run_wait_time, "start")
                   /\ self' = [self EXCEPT !.force_on = FALSE]
                   /\ UNCHANGED <<state, out>>
              ELSE /\ pc' = "hc"
                   /\ UNCHANGED <<self, state, out, run, ev>>
         [] run = Run_wait_time ->
              /\ IF StateGet("t_load", 0) + start_delay < time
                 THEN Continue(Run_wait_flow, "delay")
                 ELSE pc' = "hc" /\ UNCHANGED <<run, ev>>
              /\ UNCHANGED <<self, state, out>>
         [] run = Run_wait_flow ->
              /\ IF self.r_flow # 0
                 THEN Continue(Run_flow, "flow")
                 ELSE pc' = "hc" /\ UNCHANGED <<run, ev>>
              /\ UNCHANGED <<self, state, out>>
         [] run = Run_flow ->
              /\ IF self.r_flow * 4 >= init_rate * 3
                 THEN Continue(Run_wait_power, "rate") /\ UNCHANGED <<state, out>>
                 ELSE FlowStep /\ pc' = "sf" /\ UNCHANGED <<run, ev>>
              /\ self' = self
         [] run = Run_wait_power ->
              /\ IF self.m_power >= min_power
                 THEN Continue(Run_temp, "power") /\ UNCHANGED <<state, out>>
                 ELSE FlowStep /\ pc' = "sf" /\ UNCHANGED <<run, ev>>
              /\ self' = self
         [] run = Run_temp ->
              /\ IF self.t_out - self.t_in > start_delta
                 THEN /\ Continue(Run_run, "delta")
                      /\ state' = [state EXCEPT !.t_load = time]
                      /\ out' = out
                 ELSE /\ HandleFlow([state EXCEPT !.t_load = time])
                      /\ pc' = "hf"
                      /\ UNCHANGED <<run, ev>>
              /\ self' = self
         [] run = Run_run ->
              /\ state' = [state EXCEPT !.t_load = time]
              /\ pc' = "hc"
              /\ UNCHANGED <<self, out, run, ev>>
         [] run \in {Run_ice, Run_down} ->
              /\ HandleFlow(state)
              /\ pc' = "hf"
              /\ UNCHANGED <<self, run, ev>>
    /\ UNCHANGED <<saving, startup, m_errors, latest, time, disk, orun, m_ice, cm_main, cm_heat, heat_off,
                   t_no_power, l, lim, notified, cancelled, exc, prev, entered, low_since, cmd_at, met_since>>

(* flow, wait_power: set_flow_pwm returns *)
PumpFlowSet ==
    /\ pc = "sf" /\ ~cancelled
    /\ pc' = "hc"
    /\ UNCHANGED <<saving, startup, env, state, out, disk, locals, notified, cancelled, exc, hist>>

(* temp, ice, down: handle_flow returns; the exit conditions of ice and down *)
PumpHandleFlow ==
    /\ pc = "hf" /\ ~cancelled
    /\ state' = [state EXCEPT !.last_pump = state.last_pwm]
    /\ IF run = Run_ice /\ ~self.m_ice
       THEN Continue(Run_down, "noice")
       ELSE IF run = Run_down /\ self.t_out - self.t_in < stop_delta
       THEN Continue(Run_off, "cool")
       ELSE pc' = "hc" /\ UNCHANGED <<run, ev>>
    /\ UNCHANGED <<saving, startup, env, out, disk, orun, m_ice, cm_main, cm_heat, heat_off, t_no_power,
                   t, l, lim, notified, cancelled, exc, prev, entered, low_since, cmd_at, met_since>>

-----------------------------------------------------------------------------
(* the heating path: lines 639-671 *)
HeatCond ==
    /\ heat_off # "True"
    /\ Min(self.tb_heat, IF state.last_pwm \notin {None, 0} THEN self.t_out ELSE 9999 * Deg)
           >= self.c_heat

(* A faulty heating path that never disables *)
heat_ok_keep ==
    IF ~HeatCond
    THEN state.heat_ok
    ELSE IF state.heat_ok = heat_yes THEN heat_yes
    ELSE IF state.heat_ok = heat_no THEN time
    ELSE IF time - state.heat_ok > heat_mode_delay THEN heat_yes
    ELSE state.heat_ok

heat_ok_next ==
    IF ~HeatCond
    THEN IF run # Run_run /\ state.heat_ok # heat_no THEN heat_no ELSE state.heat_ok
    ELSE IF state.heat_ok = heat_yes THEN heat_yes
    ELSE IF state.heat_ok = heat_no THEN time
    ELSE IF time - state.heat_ok > heat_mode_delay THEN heat_yes
    ELSE state.heat_ok

heat_pin_next ==
    IF ~HeatCond
    THEN IF run # Run_run /\ state.heat_ok # heat_no THEN FALSE ELSE out.heat
    ELSE IF state.heat_ok \notin {heat_yes, heat_no} /\ time - state.heat_ok > heat_mode_delay
    THEN TRUE
    ELSE out.heat

(* the branch of the heating path: the names that lines 647-670 print *)
HeatStep ==
    IF ~HeatCond
    THEN IF run # Run_run /\ state.heat_ok # heat_no THEN "HC 1" ELSE "HC 2"
    ELSE IF state.heat_ok = heat_yes THEN "HC 3"
    ELSE IF state.heat_ok = heat_no THEN "HC 4"
    ELSE IF time - state.heat_ok > heat_mode_delay THEN "HC 5"
    ELSE "HC 6"

(* the power stall: lines 680-689 *)
NoPower == self.m_power < min_power /\ t_no_power # None /\ time - t_no_power > no_power_grace

t_no_power_next ==
    IF self.m_power < min_power
    THEN IF t_no_power = None THEN time ELSE t_no_power
    ELSE None

(* A faulty arbitration that leaves the limit loop out *)
Min3_nolimit(a, b, c) == Min(a, b)

(* lim=min(l_load,l_buffer,l_limit) *)
Min3(a, b, c) == Min(a, Min(b, c))

(* A faulty pump rate without the emergency handler *)
PumpRate_loop == pid_pump

(* The pump rate: 1 when t_out is above adj.max, else the pump loop *)
PumpRate == IF self.t_out > adj_max THEN {1 * Pct} ELSE pid_pump

(* A faulty end of the cascade without the branch for the run time *)
BufferFull_low ==
    /\ t.cur >= t.adj
    /\ self.tb_low >= t.low

(* Finally, we might want to turn the heat exchanger off: lines 752-760 *)
BufferFull ==
    /\ t.cur >= t.adj
    /\ \/ time - state.t_run > lim_power_time /\ self.tb_mid >= t.nom
       \/ self.tb_low >= t.low

(* The heating path, then, in run, the power stall and the cascade up to the
   await in set_load *)
PumpHC ==
    /\ pc = "hc"
    /\ met_since' = IF ~HeatCond THEN None
                    ELSE IF met_since = None THEN time ELSE met_since
    /\ LET st == [state EXCEPT !.heat_ok = heat_ok_next]
           o == [out EXCEPT !.heat = heat_pin_next]
           e == [ev EXCEPT !.hc = HeatStep]
       IN  IF run # Run_run
           THEN /\ state' = st
                /\ out' = o
                /\ pc' = "top"
                /\ ev' = [e EXCEPT !.why = "stay", !.ended = TRUE]
                /\ UNCHANGED <<run, t_no_power, l, lim, low_since, cmd_at>>
           ELSE IF NoPower
           THEN /\ state' = st
                /\ out' = o
                /\ run' = Run_off
                /\ pc' = "top"
                /\ ev' = [e EXCEPT !.why = "stall", !.ended = TRUE]
                /\ UNCHANGED <<t_no_power, l, lim, low_since, cmd_at>>
           ELSE /\ t_no_power' = t_no_power_next
                /\ low_since' = IF self.m_power < min_power
                                THEN (IF low_since = None THEN time ELSE low_since)
                                ELSE None
                /\ \E l_pump \in PumpRate, l_load \in pid_load,
                      l_buffer \in pid_buffer, l_limit \in pid_limit :
                        l' = [pump |-> l_pump, load |-> l_load,
                              buffer |-> l_buffer, limit |-> l_limit]
                /\ lim' = Min3(l'.load, l'.buffer, l'.limit)
                /\ cmd_at' = IF lim' >= lim_power_min THEN time ELSE cmd_at
                /\ state' = st
                /\ out' = set_load_out(o, lim')
                /\ ev' = [e EXCEPT !.hot = self.t_out > adj_max]
                /\ pc' = "c_load"
                /\ run' = run
    /\ UNCHANGED <<saving, startup, env, disk, orun, m_ice, cm_main, cm_heat, heat_off, t, notified,
                   cancelled, exc, prev, entered>>

(* set_load returns; await self.set_flow_pwm(l_pump) *)
PumpCascLoad ==
    /\ pc = "c_load" /\ ~cancelled
    /\ state' = [state EXCEPT !.last_load = set_load_last(lim), !.last_pwm = l.pump]
    /\ out' = [out EXCEPT !.flow = l.pump]
    /\ pc' = "c_flow"
    /\ UNCHANGED <<saving, startup, env, disk, locals, notified, cancelled, exc, hist>>

(* set_flow_pwm returns; the end of the cascade *)
PumpCascFlow ==
    /\ pc = "c_flow" /\ ~cancelled
    /\ state' = [state EXCEPT !.load_last = lim]
    /\ IF BufferFull
       THEN Continue(Run_off, "full")
       ELSE Continue(run, "casc")
    /\ UNCHANGED <<saving, startup, env, out, disk, orun, m_ice, cm_main, cm_heat, heat_off, t_no_power,
                   t, l, lim, notified, cancelled, exc, prev, entered, low_since, cmd_at, met_since>>

(* the task is cancelled at an await of run_pump: Data.run goes to its finaliser *)
PumpCancelled ==
    /\ pc \in PumpAwaits /\ cancelled
    /\ pc' = "finally"
    /\ exc' = "Cancelled"
    /\ UNCHANGED <<saving, startup, env, state, out, disk, locals, notified, cancelled, hist>>

(* an await of run_pump on the client raises: Data.run catches the exception and
   goes to its finaliser, while the other tasks of the command still run *)
PumpFailed ==
    /\ pc \in PumpAwaits \ {"wait"} /\ ~cancelled
    /\ pc' = "finally"
    /\ exc' = "Error"
    /\ UNCHANGED <<saving, startup, env, state, out, disk, locals, notified, cancelled, hist>>

-----------------------------------------------------------------------------
(* Data.run's finaliser: Data.off under a shielded cancel scope.  Data.save writes
   the snapshot to the temporary file and renames it. *)
OffStart ==
    /\ pc = "finally"
    /\ state' = [state EXCEPT !.run = Run_down]
    /\ tmpf' = <<state'>>
    /\ pc' = "o_w1"
    /\ UNCHANGED <<saving, startup, env, out, file, locals, notified, cancelled, exc, hist>>

(* fn.rename(f): the file that had the temporary name, open or not, gets the name of
   the state file; without a temporary file the call raises FileNotFoundError, which
   ends off() *)
OffSaved ==
    /\ pc \in {"o_w1", "o_w2"}
    /\ IF tmpf = <<>>
       THEN /\ pc' = "done"
            /\ exc' = "FileNotFoundError"
            /\ UNCHANGED <<file, tmpf, sfd>>
       ELSE /\ file' = tmpf
            /\ tmpf' = <<>>
            /\ sfd' = IF sfd = "tmp" THEN "file" ELSE sfd
            /\ pc' = IF pc = "o_w1" THEN "o_r1" ELSE "o_r2"
            /\ exc' = exc
    /\ UNCHANGED <<spc, ssnap, startup, env, state, out, locals, notified, cancelled, hist>>

OffLoad ==
    /\ pc = "o_r1"
    /\ out' = set_load_out(out, 0)
    /\ pc' = "o_load"
    /\ UNCHANGED <<saving, startup, env, state, disk, locals, notified, cancelled, exc, hist>>

(* A faulty shutdown that stops the flow without a look at the temperatures *)
OffLoop_stop(st) ==
    /\ state' = [st EXCEPT !.last_pwm = 0]
    /\ out' = [out EXCEPT !.flow = 0]
    /\ pc' = "o_flow0"

(* while self.t_out-self.t_in > stop.delta: handle_flow; wait *)
OffLoop(st) ==
    IF self.t_out - self.t_in > stop_delta
    THEN /\ HandleFlow(st)
         /\ pc' = "o_hf"
    ELSE /\ state' = [st EXCEPT !.last_pwm = 0]
         /\ out' = [out EXCEPT !.flow = 0]
         /\ pc' = "o_flow0"

OffCool ==
    /\ pc = "o_load"
    /\ OffLoop([state EXCEPT !.last_load = set_load_last(0)])
    /\ UNCHANGED <<saving, startup, env, disk, locals, notified, cancelled, exc, hist>>

OffFlowed ==
    /\ pc = "o_hf"
    /\ state' = [state EXCEPT !.last_pump = state.last_pwm]
    /\ pc' = "o_wait"
    /\ notified' = FALSE
    /\ UNCHANGED <<saving, startup, env, out, disk, locals, cancelled, exc, hist>>

OffWake ==
    /\ pc = "o_wait" /\ notified
    /\ OffLoop(state)
    /\ UNCHANGED <<saving, startup, env, disk, locals, notified, cancelled, exc, hist>>

OffFinal ==
    /\ pc = "o_flow0"
    /\ state' = [state EXCEPT !.run = 0]
    /\ tmpf' = <<state'>>
    /\ pc' = "o_w2"
    /\ UNCHANGED <<saving, startup, env, out, file, locals, notified, cancelled, exc, hist>>

OffDone ==
    /\ pc = "o_r2"
    /\ pc' = "done"
    /\ UNCHANGED <<saving, startup, env, state, out, disk, locals, notified, cancelled, exc, hist>>

-----------------------------------------------------------------------------
(* The other tasks run while the orchestrator is suspended in an await. *)

(* Data.trigger: the event is set and replaced, which wakes who waits on it *)
Trigger == notified' = (pc \in {"wait", "o_wait"})

(* Data.has, called by a feed task (Data._kv) or before the orchestrator has begun *)
has(name, value) ==
    /\ pc \in Suspended \cup {"new"} /\ ~cancelled
    /\ self' = [self EXCEPT ![name] = value]
    /\ attrs' = attrs \cup {name}
    /\ Trigger
    /\ UNCHANGED <<saving, marked, barrier, missing, m_errors, latest, time, state, out, disk, locals, pc,
                   cancelled, exc, hist>>

(* Data.err_mon, one message with a value *)
err_mon_store(path, value) ==
    IF value # 0
    THEN IF value = 30055 \/ path = ":1"
         THEN m_errors
         ELSE {e \in m_errors : e[1] # path} \cup {<<path, value>>}
    ELSE {e \in m_errors : e[1] # path}

err_mon(P, C) ==
    /\ pc \in Suspended /\ ~cancelled
    /\ \E path \in P, value \in C :
          /\ m_errors' = err_mon_store(path, value)
          /\ latest' = [latest EXCEPT ![path] = value]
    /\ Trigger
    /\ UNCHANGED <<saving, startup, self, time, state, out, disk, locals, pc, cancelled, exc, hist>>

(* Data.saver: anyio.sleep(10) returns and save() prints the state into a string *)
SaverSave ==
    /\ spc = "sleep" /\ pc \in Suspended /\ ~cancelled
    /\ ssnap' = state
    /\ spc' = "open"
    /\ UNCHANGED <<sfd, startup, env, state, out, disk, locals, pc, notified, cancelled, exc,
                   hist>>

(* what open(fn, "w") leaves of a file: no text *)
Truncated == [bytes |-> 0]

(* fn.write_text runs in a worker thread, which first opens the temporary file for
   writing *)
SaverOpen ==
    /\ spc = "open"
    /\ tmpf' = <<Truncated>>
    /\ sfd' = "tmp"
    /\ spc' = "write"
    /\ UNCHANGED <<ssnap, startup, env, state, out, file, locals, pc, notified, cancelled, exc,
                   hist>>

(* the thread writes the string into the file it has opened, whatever the name of the
   file is by now, and closes it *)
SaverWrite ==
    /\ spc = "write"
    /\ IF sfd = "tmp"
       THEN tmpf' = <<ssnap>> /\ file' = file
       ELSE file' = <<ssnap>> /\ tmpf' = tmpf
    /\ sfd' = "none"
    /\ spc' = "rename"
    /\ UNCHANGED <<ssnap, startup, env, state, out, locals, pc, notified, cancelled, exc, hist>>

(* fn.rename(f) in the saver; FileNotFoundError ends the task and with it the task
   group of the command *)
SaverRename ==
    /\ spc = "rename" /\ ~cancelled
    /\ IF tmpf = <<>>
       THEN /\ spc' = "failed"
            /\ cancelled' = TRUE
            /\ UNCHANGED disk
       ELSE /\ file' = tmpf
            /\ tmpf' = <<>>
            /\ spc' = "wait"
            /\ cancelled' = cancelled
    /\ UNCHANGED <<sfd, ssnap, startup, env, state, out, locals, pc, notified, exc, hist>>

(* Data.wait returns in the saver: another task has called trigger *)
SaverWake ==
    /\ spc = "wait" /\ pc \in Suspended /\ ~cancelled
    /\ spc' = "sleep"
    /\ Trigger
    /\ UNCHANGED <<sfd, ssnap, startup, env, state, out, disk, locals, pc, cancelled, exc, hist>>

(* fn.write_text raises OSError in save(): the file system refuses the open or the
   write, and the file stays as it is *)
SaverFailed ==
    /\ spc \in {"open", "write"} /\ ~cancelled
    /\ spc' = "raise"
    /\ sfd' = "none"
    /\ UNCHANGED <<ssnap, startup, env, state, out, disk, locals, pc, notified, cancelled, exc,
                   hist>>

(* the exception leaves save() and Data.saver, which has no handler: the task ends
   and the task group of the command is cancelled *)
SaverRaise ==
    /\ spc = "raise"
    /\ spc' = "failed"
    /\ cancelled' = TRUE
    /\ UNCHANGED <<sfd, ssnap, startup, env, state, out, disk, locals, pc, notified, exc, hist>>

saver ==
    \/ SaverSave \/ SaverOpen \/ SaverWrite \/ SaverRename \/ SaverWake
    \/ SaverFailed \/ SaverRaise

(* time passes while the tasks are suspended *)
Tick(Steps) ==
    /\ pc \in Suspended
    /\ \E d \in Steps : time + d <= MaxTime /\ time' = time + d
    /\ UNCHANGED <<saving, startup, self, m_errors, latest, state, out, disk, locals, pc, notified,
                   cancelled, exc, hist>>

(* the task group of the command is cancelled: the feed tasks end *)
Cancel ==
    /\ pc \in Suspended /\ ~cancelled
    /\ cancelled' = TRUE
    /\ UNCHANGED <<saving, startup, env, state, out, disk, locals, pc, notified, exc, hist>>

-----------------------------------------------------------------------------
Default(n) ==
    CASE n = "m_ice" -> FALSE
      [] n \in {"cm_main", "cm_heat"} -> TRUE
      [] n = "t_out" -> (InTemp + OutRise) * Deg
      [] n = "r_flow" -> FlowRate
      [] n \in {"tb_water", "tb_heat", "tb_mid", "tb_low"} -> BufCold * Deg
      [] n = "m_power" -> 0

(* The live values when the startup barrier has resolved: those of the names in N
   are any of their values. *)
D(n, N) == IF n \in N THEN Dom(n) ELSE {Default(n)}

Values(N, F) ==
    \E m_ice_ \in D("m_ice", N), cm_main_ \in D("cm_main", N), cm_heat_ \in D("cm_heat", N),
       t_out_ \in D("t_out", N), r_flow_ \in D("r_flow", N), tb_water_ \in D("tb_water", N),
       tb_heat_ \in D("tb_heat", N), tb_mid_ \in D("tb_mid", N), tb_low_ \in D("tb_low", N),
       m_power_ \in D("m_power", N), force_on_ \in F :
        self = [m_ice |-> m_ice_, cm_main |-> cm_main_, cm_heat |-> cm_heat_,
                c_water |-> WaterSet * Deg, c_heat |-> HeatSet * Deg, t_in |-> InTemp * Deg,
                t_out |-> t_out_, r_flow |-> r_flow_, tb_water |-> tb_water_,
                tb_heat |-> tb_heat_, tb_mid |-> tb_mid_, tb_low |-> tb_low_,
                m_power |-> m_power_, force_on |-> force_on_]

(* the names run_init subscribes to, of those the model has *)
Registered ==
    {"cm_main", "cm_heat", "c_heat", "c_water", "t_in", "t_out", "r_flow", "m_ice",
     "tb_water", "tb_heat", "tb_mid", "tb_low", "m_power"}

(* run_init has started: every name has a value and its marker *)
Resolved ==
    /\ want = {}
    /\ miss = {}
    /\ attrs = Registered
    /\ marked = Registered
    /\ barrier = "started"
    /\ missing = {}

InitValues(N, F) == Values(N, F) /\ Resolved

(* run_init waits in all_done: the subscriptions of the names N have been made
   (Data._kv adds the name to _want) and nothing has come from them yet *)
Waiting(N) ==
    /\ want = N
    /\ miss = {}
    /\ attrs = Registered \ N
    /\ marked = Registered \ N
    /\ barrier = "waiting"
    /\ missing = {}

(* Data._kv, a message with a value: the name is no longer waited for if the
   uptodate marker came before any value *)
Feed(N) ==
    \E name \in N : \E value \in Dom(name) :
        /\ has(name, value)
        /\ miss' = miss \ {name}
        /\ want' = IF name \in miss THEN want \ {name} ELSE want

(* Data._kv, the uptodate marker of a subscription, which comes once *)
Uptodate(N) ==
    \E name \in N \ marked :
        /\ pc \in Suspended \cup {"new"} /\ ~cancelled
        /\ marked' = marked \cup {name}
        /\ IF name \in attrs
           THEN /\ miss' = miss \ {name}
                /\ want' = want \ {name}
                /\ notified' = IF want' = {} THEN pc \in {"wait", "o_wait"} ELSE notified
           ELSE /\ miss' = miss \cup {name}
                /\ UNCHANGED <<want, notified>>
        /\ UNCHANGED <<saving, attrs, barrier, missing, env, state, out, disk, locals, pc, cancelled,
                       exc, hist>>

(* Data.all_done returns and run_init reports that it has started *)
all_done ==
    /\ barrier = "waiting" /\ ~cancelled
    /\ want = {}
    /\ barrier' = "started"
    /\ UNCHANGED <<saving, want, miss, attrs, marked, missing, env, state, out, disk, locals, pc,
                   notified, cancelled, exc, hist>>

(* anyio.fail_after(misc.init_timeout) ends all_done: run_init raises ValueError with
   the names still waited for, which ends the task group of the command *)
InitTimeout ==
    /\ barrier = "waiting" /\ ~cancelled
    /\ barrier' = "timeout"
    /\ missing' = want
    /\ cancelled' = TRUE
    /\ UNCHANGED <<saving, want, miss, attrs, marked, env, state, out, disk, locals, pc, notified,
                   exc, hist>>

RunStart_early ==
    /\ pc = "new" /\ ~cancelled
    /\ pc' = "top"
    /\ UNCHANGED <<saving, startup, env, state, out, disk, locals, notified, cancelled, exc, hist>>

(* the command starts Data.run when run_init has started *)
RunStart ==
    /\ pc = "new" /\ ~cancelled
    /\ barrier = "started"
    /\ pc' = "top"
    /\ UNCHANGED <<saving, startup, env, state, out, disk, locals, notified, cancelled, exc, hist>>

run_pump ==
    \/ PumpTop \/ PumpFix \/ PumpEnter \/ PumpEnter2 \/ PumpEnter3 \/ PumpWake
    \/ PumpPost \/ PumpFbIce \/ PumpMain \/ PumpFbMain \/ PumpHeatSw \/ PumpFbHeat
    \/ PumpCalc \/ PumpFlowSet \/ PumpHandleFlow \/ PumpHC \/ PumpCascLoad \/ PumpCascFlow

off ==
    \/ PumpCancelled
    \/ OffStart \/ OffSaved \/ OffLoad \/ OffCool \/ OffFlowed \/ OffWake \/ OffFinal
    \/ OffDone

AnyFile == RunStates \cup {None}

(* The state machine under the ice sensor, the main switch, the faults and the
   exchanger's temperature rise. *)
SwitchNames == {"m_ice", "cm_main", "t_out"}
Init == InitProgram(AnyFile) /\ InitValues(SwitchNames, {FALSE})
Next == run_pump \/ Feed(SwitchNames) \/ err_mon({":2"}, {0, ErrCode})
Spec == Init /\ [][Next]_vars

(* The top of the loop for every pair of a previous and a requested Run state: the
   check for inappropriate state changes, the redirect and the entry actions. *)
TransInit == LoopTop(RunStates \cup {None}, RunStates) /\ InitValues({}, {FALSE})
TransNext == PumpTop \/ PumpFix \/ PumpEnter \/ PumpEnter2 \/ PumpEnter3
SpecTrans == TransInit /\ [][TransNext]_vars

(* The cascade: the program restarts in wait_power or in run, the heat pump works or
   does not, and the temperatures of the exchanger and of the buffer change while
   time passes. *)
CascadeNames == {"t_out", "tb_heat", "tb_mid", "tb_low"}
CascadeInit == InitProgram({Run_wait_power, Run_run}) /\ InitValues({"m_ice", "m_power"}, {FALSE})
CascadeNext == run_pump \/ Feed(CascadeNames) \/ Tick({TickLong})
SpecCascade == CascadeInit /\ [][CascadeNext]_vars

(* The start: the program restarts from any state file, forced on or not, and the
   temperatures of the buffer and the heating switch change. *)
StartNames == {"tb_water", "tb_heat", "cm_heat"}
StartInit == InitProgram(AnyFile) /\ InitValues({"m_ice", "t_out"}, BOOLEAN)
StartNext == run_pump \/ Feed(StartNames)
SpecStart == StartInit /\ [][StartNext]_vars

(* The shutdown: the orchestrator ends by a failed write or by the cancellation of
   the command's task group, and Data.run runs Data.off.  The steps of the task are
   taken when they can be; an update of a live value or a cancellation may never
   come. *)
ShutdownNames == {"t_out"}
ShutdownInit == InitProgram({Run_wait_power, Run_run}) /\ InitValues({"m_ice", "t_out"}, {FALSE})
ShutdownNext == run_pump \/ PumpFailed \/ off \/ Feed(ShutdownNames) \/ Cancel
SpecShutdown ==
    ShutdownInit /\ [][ShutdownNext]_vars /\ WF_vars(run_pump) /\ WF_vars(off)

(* The power stall: the program restarts in run, and the ice sensor, the power the
   heat pump draws and the exchanger's temperature rise change while time passes. *)
StallNames == {"m_ice", "m_power", "t_out"}
StallInit == InitProgram({Run_run}) /\ InitValues({}, {FALSE})
StallNext == run_pump \/ Feed(StallNames) \/ Tick({TickLong})
SpecStall == StallInit /\ [][StallNext]_vars

(* The command "run" from the subscriptions of run_init on: the startup barrier, then
   the orchestrator.  The subscriptions of StartupNames have sent nothing yet. *)
StartupNames == {"m_ice", "t_out"}
StartupInit ==
    /\ Loaded({None}, {Run_wait_power, Run_run}, "new")
    /\ Values({}, {FALSE})
    /\ Waiting(StartupNames)
StartupNext ==
    \/ Feed(StartupNames) \/ Uptodate(StartupNames) \/ all_done \/ InitTimeout
    \/ RunStart \/ run_pump
SpecStartup == StartupInit /\ [][StartupNext]_vars

(* The command "run" with its task Data.saver, which saves the state while the
   orchestrator runs and while it shuts down after a failure; there may be no state
   file at the start.  The feeds send the values the program has already: a message
   of theirs is the trigger that ends a wait of the saver and of the orchestrator. *)
SaveInit ==
    /\ InitProgram({None, Run_wait_power, Run_run})
    /\ InitValues({"m_ice", "t_out"}, {FALSE})
SaveNext == run_pump \/ PumpFailed \/ off \/ Cancel \/ saver
SpecSave == SaveInit /\ [][SaveNext]_vars

(* The state machine under the error feed, with every kind of message of it. *)
FaultNames == {"t_out"}
FaultInit == InitProgram({Run_wait_power, Run_run}) /\ InitValues({"m_ice", "t_out"}, {FALSE})
FaultNext == run_pump \/ Feed(FaultNames) \/ err_mon(ErrPaths, ErrCodes)
SpecFault == FaultInit /\ [][FaultNext]_vars

(* The same under a scheduler that runs the orchestrator whenever it can run, and
   feeds that keep sending values, so that Data.wait returns again and again. *)
SpecRecover ==
    /\ FaultInit /\ [][FaultNext]_vars
    /\ WF_vars(run_pump) /\ WF_vars(Feed(FaultNames))

-----------------------------------------------------------------------------
(* The claims *)

(* An evaluation of the exit conditions has come to its end (it has reached
   "continue" or the end of the loop body) and the loop is back at its top. *)
Evaluated == pc = "top" /\ ev.ended

(* C1: Ice pre-emption has first priority: at the end of an evaluation of the exit
   conditions that read the ice sensor as true (and at whose end it still is true),
   the machine is never in or advancing through wait_time, wait_flow, flow,
   wait_power, temp or run.  (The claim also says that the state then is ice; the
   shutdown states down and off are let pass here.) *)
C1_IceFirst ==
    (Evaluated /\ ev.ice /\ self.m_ice) => run \notin Run_wait_time .. Run_run

(* C2: Whenever an evaluation that ice does not pre-empt reads the main switch as
   off or the fault set as non-empty, in any of the states wait_time .. run, it
   requests off; it never advances.  (The claim is about every state but off; the
   states ice and down, which already shut down, are left out here.) *)
C2_MainForcesOff ==
    (Evaluated /\ ev.main = "bad" /\ ev.from \in Run_wait_time .. Run_run)
        => run = Run_off

(* The load command Data.set_load issues for the load p *)
LoadCommand(p) == IF p < lim_power_min THEN 0 ELSE IF p > 1 * Pct THEN 1 * Pct ELSE p

(* The least of the outputs of the load, buffer and limit loops of this evaluation *)
LeastLoop ==
    CHOOSE x \in {l.load, l.buffer, l.limit} : \A y \in {l.load, l.buffer, l.limit} : x <= y

(* The cascade of this evaluation has issued its commands. *)
CascadeIssued == pc = "c_flow"

(* C3, as stated: in a cascade evaluation in run that reads t_out above adj.max, the
   load command issued is 0 and the pump-speed command is 1. *)
C3_OverTempOverride ==
    (CascadeIssued /\ ev.hot) => (out.power = 0 /\ out.flow = 1 * Pct)

(* C3, amended: in a cascade evaluation in run that reads t_out above adj.max, the
   pump-speed command is 1 whatever the pump loop says; the load command is not
   forced: it is what set_load issues for the least of the outputs of the load,
   buffer and limit loops, which the clamps of the loops keep above 0. *)
C3_OverTempPump ==
    (CascadeIssued /\ ev.hot)
        => (out.flow = 1 * Pct /\ out.power = LoadCommand(LeastLoop) /\ out.power > 0)

C3_Witness == CascadeIssued /\ ev.hot /\ l.load # l.limit

(* The table of C4: unchanged, one step forward, a jump to off, a jump to down, a
   jump to or from ice. *)
InTable(o, r) ==
    \/ r = o
    \/ r = o + 1
    \/ r = Run_off
    \/ r = Run_down
    \/ r = Run_ice
    \/ o = Run_ice

(* C4: Illegal transitions fail fast: for every pair of a previous and a requested
   Run state outside the table, the check at the top of the loop raises ValueError
   before any entry action runs (no output is written, the stored state is as it
   was), and the requested state is not replaced by another one. *)
C4_IllegalFailFast ==
    [][(pc = "top" /\ orun # None /\ ~InTable(orun, run))
          => /\ pc' = "finally"
             /\ exc' = "ValueError"
             /\ run' = run
             /\ out' = out
             /\ state' = state]_vars

C4_Witness ==
    pc = "finally" /\ exc = "ValueError" /\ orun = Run_wait_flow /\ run = Run_run

(* C5: The shutdown finalizer always completes: once Data.run has entered its
   finaliser, Data.off eventually returns with the flow output at 0 and Run = off
   stored and saved, on every exit path of the orchestrator, also when
   outlet-minus-inlet is above the stop delta when the shutdown starts and no
   further update of a live value arrives. *)
C5_FinalizerCompletes ==
    (pc = "finally")
        ~> (pc = "done" /\ out.flow = 0 /\ state.run = Run_off /\ file = <<state>>)

(* C6: Cooldown is always required after ice: the state that follows ice is down,
   and the machine then leaves down (other than back to ice) only when
   outlet-minus-inlet is below the stop delta. *)
C6_CooldownAfterIce ==
    [][/\ (orun = Run_ice /\ orun' # Run_ice) => orun' = Run_down
       /\ (orun = Run_down /\ prev = Run_ice /\ run = Run_down /\ run' # Run_down)
            => (run' = Run_ice \/ self.t_out - self.t_in < stop_delta)]_vars

(* An evaluation in off has come to the state handling with the main switch read as
   on, no fault and no ice. *)
OffReady ==
    /\ pc = "calc" /\ run = Run_off
    /\ ev.main = "ok" /\ m_errors = {} /\ ~ev.ice /\ ~self.m_ice

(* C7, as stated: with the main switch on, no faults, no ice and the forced-on flag
   clear, the machine stays off while t_cur is below the on threshold t_set_on =
   (t_low+t_adj)/2, and it moves to wait_time once t_cur is above the threshold or
   the forced-on flag is set. *)
C7_StartAbove ==
    [][OffReady
          => /\ (~self.force_on /\ 2 * t'.cur < t'.low + t'.adj) => run' = Run_off
             /\ (self.force_on \/ 2 * t'.cur > t'.low + t'.adj) => run' = Run_wait_time]_vars

(* C7, amended: with the main switch on, no faults and no ice, the machine stays off
   while t_cur is at or above the on threshold and the forced-on flag is clear, and
   it moves to wait_time once t_cur is below the threshold or the forced-on flag is
   set. *)
C7_StartBelow ==
    [][OffReady
          => /\ (~self.force_on /\ 2 * t'.cur >= t'.low + t'.adj) => run' = Run_off
             /\ (self.force_on \/ 2 * t'.cur < t'.low + t'.adj) => run' = Run_wait_time]_vars

C7_Witness ==
    /\ Evaluated /\ ev.from = Run_off /\ ev.why = "start"
    /\ cm_heat = "False" /\ self.tb_water = BufCold * Deg /\ self.tb_heat = BufWarm * Deg

(* C8: Cascade arbitration: in every cascade evaluation in run, the load passed to
   set_load and stored as load_last is the least of the outputs of the load, buffer
   and limit loops of that evaluation; the load command is above none of them. *)
C8_CascadeMin ==
    /\ CascadeIssued
          => /\ lim = LeastLoop
             /\ out.power = LoadCommand(lim)
             /\ out.mode = IF lim < lim_power_min THEN mode_off ELSE mode_on
             /\ state.last_load = (IF lim < lim_power_min THEN 0 ELSE lim)
             /\ \A x \in {l.load, l.buffer, l.limit} : out.power <= x
    /\ (Evaluated /\ ev.why \in {"casc", "full"}) => state.load_last = LeastLoop

C8_Witness ==
    Evaluated /\ ev.why = "casc" /\ l.load = pid_load_max /\ l.buffer = pid_load_max
              /\ l.limit = pid_load_min

(* C9: Power-stall shutdown: an evaluation leaves run because of low power only if
   the power has been below misc.min_power at every evaluation of the current stay
   in run since one that lies more than 20 seconds back. *)
C9_StallGrace ==
    (Evaluated /\ ev.why = "stall")
        => (low_since # None /\ time - low_since > no_power_grace)

(* C10: Buffer-full shutdown: an evaluation in run that reaches the end of the
   cascade requests off if and only if t_cur >= t_adj and ((time - t_run >
   lim.power.time and tb_mid >= t_set_off) or tb_low >= t_low); run has no exit but
   this one, the power stall, ice and the main switch or a fault. *)
C10_BufferFull ==
    [][/\ (pc = "c_flow" /\ pc' = "top")
            => ((run' # Run_run)
                  <=> /\ t.cur >= t.adj
                      /\ \/ (time - state.t_run > lim_power_time /\ self.tb_mid >= t.nom)
                         \/ self.tb_low >= t.low)
       /\ (pc = "c_flow" /\ pc' = "top" /\ run' # Run_run) => run' = Run_off
       /\ (run = Run_run /\ run' # Run_run)
            => ev'.why \in {"full", "stall", "ice", "main"}]_vars

C10_Witness ==
    Evaluated /\ ev.why = "full" /\ self.tb_low < t.low /\ time - state.t_run > lim_power_time

(* C11: Cooldown is not cut short: Run changes from down to off only in an
   evaluation in which outlet-minus-inlet is below misc.stop.delta; neither the main
   switch nor a fault moves the machine from down to off while the delta is at or
   above the stop delta. *)
C11_CooldownNotCut ==
    [][(orun = Run_down /\ run = Run_down /\ run' = Run_off)
          => self.t_out - self.t_in < stop_delta]_vars

(* C12: Restart delay: Run changes from wait_time to wait_flow only when more than
   misc.start.delay seconds have passed since the last command of a non-zero load
   to the heat pump, the start-up load of the entry to wait_power included. *)
C12_RestartDelay ==
    [][(run = Run_wait_time /\ run' = Run_wait_flow)
          => (cmd_at = None \/ time - cmd_at > start_delay)]_vars

(* The enabling condition of the heating path: heating is not blocked by the state,
   and min(tb_heat, t_out when the pump runs) >= c_heat. *)
Enabling ==
    /\ heat_off # "True"
    /\ self.tb_heat >= self.c_heat
    /\ (state.last_pwm \notin {None, 0}) => self.t_out >= self.c_heat

(* C13, as stated: in every evaluation, in every Run state, in which the enabling
   condition is not met, the heating path is commanded off and heat_ok is False
   after that evaluation. *)
C13_HeatOffAtOnce ==
    [][(pc = "hc" /\ ~Enabling) => (state'.heat_ok = heat_no /\ ~out'.heat)]_vars

(* C13, amended: in every evaluation that comes to the heating path in a Run state
   other than run and does not meet the enabling condition, the heating path is
   commanded off and heat_ok is False after that evaluation; in run the heating path
   is left as it is (heat_ok and the command do not change) until the machine has
   left run. *)
C13_HeatOffOutsideRun ==
    [][(pc = "hc" /\ ~Enabling)
          => IF run # Run_run
             THEN state'.heat_ok = heat_no /\ ~out'.heat
             ELSE state'.heat_ok = state.heat_ok /\ out'.heat = out.heat]_vars

C13_Witness == Evaluated /\ ev.hc = "HC 1" /\ state.heat_ok = heat_no /\ ~out.heat

(* C14: Heating path is enabled only after a continuous hold: heat_ok changes to
   True only if the enabling condition was met at every evaluation of the heating
   path during more than setting.heat.mode.delay seconds immediately before; an
   evaluation that does not meet it, in any Run state, run included, restarts the
   delay. *)
C14_EnableAfterHold ==
    [][(pc = "hc" /\ state.heat_ok # heat_yes /\ state'.heat_ok = heat_yes)
          => (met_since' # None /\ time - met_since' > heat_mode_delay)]_vars

(* The snapshot in the state file *)
Saved == IF file = <<>> THEN NoState ELSE file[1]

(* C15: Shutdown ordering in off(): down is recorded and persisted before the load is
   zeroed; the load is zeroed before any cooldown step; while outlet-minus-inlet
   exceeds the stop delta only the cooldown flow step runs and the recorded Run stays
   down; the flow output is set to 0 only when the delta is no longer above the stop
   delta; Run = off is recorded and persisted last. *)
C15_ShutdownOrder ==
    [][/\ (pc = "o_r1" /\ pc' # pc)
            => /\ state.run = Run_down /\ Saved = state
               /\ pc' = "o_load" /\ out'.power = 0 /\ out'.mode = mode_off
               /\ out'.flow = out.flow
       /\ (pc \in {"o_load", "o_wait"} /\ pc' # pc)
            => /\ out.power = 0 /\ out'.power = 0
               /\ state'.run = Run_down /\ Saved' = Saved
               /\ IF self.t_out - self.t_in > stop_delta
                  THEN pc' = "o_hf" /\ out'.flow > 0
                  ELSE pc' = "o_flow0" /\ out'.flow = 0
       /\ (pc = "o_hf" /\ pc' # pc)
            => (pc' = "o_wait" /\ state'.run = Run_down /\ out' = out /\ Saved' = Saved)
       /\ (pc \in OffAwaits /\ state.run # Run_off /\ state'.run = Run_off)
            => (pc = "o_flow0" /\ out.flow = 0 /\ out.power = 0 /\ Saved.run = Run_down)
       /\ (pc' = "done" /\ pc # "done")
            => (state.run = Run_off /\ Saved = state /\ out.flow = 0 /\ out.power = 0)]_vars

C15_Witness ==
    /\ pc = "done" /\ state.run = Run_off /\ Saved = state
    /\ state.last_pump # None /\ exc = "Error"

(* C16: the startup barrier resolves only when every registered name has been updated,
   and at a timeout the names reported missing are exactly those never updated *)
C16_Barrier ==
    /\ barrier = "started" => attrs = Registered
    /\ barrier = "timeout" => missing = Registered \ attrs

(* C17: until the startup barrier has resolved the orchestrator has not begun: no
   exit condition is evaluated and no flow or load command is issued; after a timeout
   it never begins *)
C17_FailFast ==
    barrier # "started" =>
        /\ pc = "new"
        /\ ev = NoEval
        /\ cmd_at = None
        /\ state = Saved

C17_Witness == barrier = "timeout" /\ pc = "new" /\ missing # {} /\ cancelled

(* C18: the fault set holds a path exactly when the last code received for that path
   is not zero, whatever the code, so the machine counts as faulted exactly when the
   last code of some path is not zero *)
C18_FaultSet ==
    /\ \A path \in ErrPaths : (\E e \in m_errors : e[1] = path) <=> latest[path] # 0
    /\ (m_errors # {}) <=> (\E path \in ErrPaths : latest[path] # 0)

(* C19: when the machine has been evaluated in off and then no fault is stored, the
   main switch is on, no ice is sensed and the start condition holds, the machine
   takes off -> wait_time, unless a fault, the main switch, the ice sensor or the
   start condition changes first: after the faults have cleared it does not stay
   in off *)
Recovered ==
    /\ run = Run_off /\ orun = Run_off
    /\ m_errors = {}
    /\ self.cm_main
    /\ ~self.m_ice /\ ~m_ice
    /\ StartCond(Temps)

C19_FaultRecovery ==
    Recovered ~> \/ run = Run_wait_time
                 \/ m_errors # {} \/ ~self.cm_main \/ self.m_ice \/ ~StartCond(Temps)

C19_Witness == Recovered /\ pc = "main" /\ cm_main = "False"

(* C20: at every point the state file is absent or holds one complete snapshot, never
   a part of one (the state a crash at that point would leave), and the program that
   finds no state file has begun with the empty state, whose Run is off *)
C20_AtomicReplace ==
    /\ file # <<Truncated>>
    /\ (pc = "top" /\ orun = None /\ file = <<>>) => (state = NoState /\ run = Run_off)

(* C21: when a write of the saver has failed, the saver goes on to its next sleep and
   neither it nor the orchestrator is ended *)
C21_SaverRetries ==
    [][(spc = "raise" /\ spc' # "raise") => (spc' = "sleep" /\ cancelled' = cancelled)]_vars

(* C22: no update is left without an evaluation: when the orchestrator waits for the
   next update and none is notified, the last evaluation has read the ice sensor's
   present value *)
C22_NoLostWakeup ==
    (pc = "wait" /\ ~notified /\ ev # NoEval) => ev.ice = self.m_ice

(* the positions of run_pump where the entry action of the requested state is over *)
EntryDone == {"e2", "e3", "wait", "post", "fb_ice", "fb_noice", "main", "fb_off", "fb_on",
              "heatsw", "fb_heat", "calc", "sf", "hf", "hc", "c_load", "c_flow"}

(* C23: the entry action of a state runs once for every change of Run, also after a
   restart, and before the state's exit conditions are evaluated; it never runs when
   Run has not changed *)
C23_EntryOnce ==
    [][/\ (pc = "enter" /\ orun # run) => (entered # run /\ entered' = run /\ pc' # "wait")
       /\ (pc = "enter" /\ orun = run) =>
              (entered = run /\ pc' = "wait" /\ state' = state /\ out' = out)
       /\ pc' \in EntryDone => entered' = run']_vars

C23_Witness ==
    /\ pc = "post" /\ orun # run /\ entered = run
    /\ prev # None /\ orun # None

(* C24: the entry action of run, on a transition into run from another state, leaves
   in RuntimeState.t_run the time of that transition *)
C24_RunStart ==
    [][(pc = "enter" /\ orun \notin {None, Run_run} /\ run = Run_run)
          => state'.t_run = time]_vars

(* the Run value of the state file the program has started with *)
StoredRun == IF Saved.run = None THEN Run_off ELSE Saved.run

(* C25: the first state the orchestrator enters after the start of the process is the
   Run value of the state file, and off when there is no file or no Run value in it *)
C25_RestoreAtStartup ==
    (orun = None /\ entered # None) => entered = StoredRun

(* C26: every transition the loop requests passes the check for inappropriate state
   changes: run_pump never raises the ValueError of the check *)
C26_NoIllegalRequest ==
    /\ exc # "ValueError"
    /\ pc = "top" => TransitionOK(orun, run)

C26_Witness == pc = "enter" /\ orun = Run_run /\ run = Run_ice /\ exc = "none"

(* C27: a request for off while the previous state is flow, temp, run or ice becomes
   a request for down, and the entry action of off runs only after that of wait_time,
   wait_flow, wait_power or down: a shutdown from flow, temp, run or ice passes
   through down *)
C27_ShutdownRedirect ==
    [][/\ (pc = "top" /\ run = Run_off /\ orun \in {Run_flow, Run_temp, Run_run, Run_ice})
            => (run' = Run_down /\ pc' = "enter")
       /\ (entered' = Run_off /\ entered # Run_off)
            => entered \in {Run_wait_time, Run_wait_flow, Run_wait_power, Run_down}]_vars

C27_Witness ==
    /\ entered = Run_off /\ pc = "post" /\ orun = Run_down
    /\ prev \in {Run_flow, Run_temp, Run_run, Run_ice}

(* C28: at every point, when the load last commanded to the heat pump is not zero,
   the flow output last commanded is not zero *)
C28_NoLoadWithoutFlow == out.power # 0 => out.flow # 0

(* C29: no save() of off() fails while the saver saves too, and when off() has ended
   the state file holds the snapshot of its last save *)
C29_ConcurrentSaves ==
    /\ exc # "FileNotFoundError"
    /\ (pc = "done" /\ sfd = "none") => file = <<state>>

====
